---------------------------- MODULE Spec2Model ----------------------------
(***************************************************************************)
(* Model of src/main.py: the /chat request handler `chat` and the answer   *)
(* pipeline `generate_response_with_gemini` with its process-wide          *)
(* `response_cache`.                                                       *)
(*                                                                         *)
(* Every POST /chat request is one element of Requests; Flask serves each  *)
(* request on its own thread, so a request is also a thread of control     *)
(* with a program counter.  The LLM provider and the translation provider  *)
(* are external: each call nondeterministically returns one of a few texts *)
(* or raises.  Strings are TLA+ strings, the cache key is built by string  *)
(* concatenation exactly as the f-string of the source builds it.          *)
(***************************************************************************)
EXTENDS Naturals, Sequences, FiniteSets, TLC

(***************************************************************************)
(* Bounds of the model.                                                    *)
(***************************************************************************)
\* number of POST /chat requests that arrive in one behaviour
MaxRequests == 3
\* number of requests the threaded server runs at the same time (SpecConc)
MaxInFlight == 2

Requests == 1..MaxRequests

(***************************************************************************)
(* Inputs.  A form field is an option: <<>> when the field is absent,      *)
(* <<s>> when it is present with text s.                                   *)
(***************************************************************************)
QueryTexts == {"", "a", "a_b"}
LanguageTexts == {"en", "es", "b_en"}
Option(S) == {<<>>} \cup {<<s>> : s \in S}
Forms == [user_query : Option(QueryTexts), language : Option(LanguageTexts)]
\* the forms submitted in the runs with overlapping requests
ConcForms == [user_query : Option({"a"}), language : Option({"en", "es"})]

\* what the providers can answer
LlmTexts == {"A1", "A2"}
TranslatedTexts == {"T1"}
\* what a provider call can raise (subclasses of Exception)
Exceptions == {"ConnectionError"}

Outcome(texts) ==
    {[ok |-> TRUE, text |-> t, exc |-> ""] : t \in texts}
        \cup {[ok |-> FALSE, text |-> "", exc |-> e] : e \in Exceptions}
\* llm.invoke(prompt).content
LlmOutcomes == Outcome(LlmTexts)
\* GoogleTranslator(source="auto", target=language).translate(text)
TranslateOutcomes == Outcome(TranslatedTexts)
NoOutcome == [ok |-> FALSE, text |-> "", exc |-> ""]

(***************************************************************************)
(* Literals of the source.                                                 *)
(***************************************************************************)
DefaultLanguage == "en"
PromptMessage == "Please enter a question."
Fallback == "Sorry, I'm having trouble connecting to my brain right now. Please try again later."
\* a local variable that has not been assigned yet
Unset == "<unset>"

(***************************************************************************)
(* Pure helpers.                                                           *)
(***************************************************************************)
\* request.form.get(name): None (<<>>) when the field is absent
FormGet(f, name) == f[name]

\* request.form.get(name, default)
FormGetDefault(f, name, default) ==
    IF f[name] = <<>> THEN default ELSE f[name][1]

\* `not user_query`: None and "" are both falsy
FalsyNoneOnly(v) == v = <<>>
Falsy(v) == v = <<>> \/ v[1] = ""

\* cache_key = f"{user_query}_{language}"
CacheKeyEscaped(q, l) == q \o "|" \o l
CacheKey(q, l) == q \o "_" \o l

\* cache_key in response_cache
CacheHitNever(key, c) == FALSE
CacheHit(key, c) == key \in DOMAIN c

\* response_cache[cache_key] = response_content
CachePutEvicting(c, key, v) == [k \in {key} |-> v]
CachePutIfAbsent(c, key, v) ==
    IF key \in DOMAIN c THEN c
    ELSE [k \in DOMAIN c \cup {key} |-> IF k = key THEN v ELSE c[k]]
CachePut(c, key, v) ==
    [k \in DOMAIN c \cup {key} |-> IF k = key THEN v ELSE c[k]]

\* `except Exception`: catches whatever the provider call raises
ExceptCatchesKeyErrorOnly(exc) == exc = "KeyError"
ExceptCatches(exc) == TRUE

\* if language != "en"
NeedsTranslationAlways(l) == TRUE
NeedsTranslation(l) == l # DefaultLanguage

\* the text `response_content` holds after the try/except around the LLM call
LlmContentRaw(out) == IF out.ok THEN out.text ELSE out.exc
LlmContent(out) == IF out.ok THEN out.text ELSE Fallback

\* the text `response_content` holds after the try/except around translate
TranslatedContentApology(before, out) == IF out.ok THEN out.text ELSE Fallback
TranslatedContent(before, out) == IF out.ok THEN out.text ELSE before

\* where control goes after the LLM try/except: there is no retry
AfterLlmRetry(out, l) ==
    IF ~out.ok THEN "llm"
    ELSE IF NeedsTranslation(l) THEN "translate" ELSE "store"
AfterLlm(out, l) == IF NeedsTranslation(l) THEN "translate" ELSE "store"

\* where control goes after the translation try/except: there is no retry
AfterTranslate(out) == "store"

(***************************************************************************)
(* State.                                                                  *)
(***************************************************************************)
VARIABLES
    response_cache,    \* the module-level dict: cache key -> response text
    pc,                \* per request: new, lookup, llm, translate, store, done, error
    form,              \* per request: the submitted form
    user_query,        \* per request: local of chat (option)
    language,          \* per request: local of chat / parameter of the pipeline
    response_content,  \* per request: local of generate_response_with_gemini
    response,          \* per request: the `response` field of the JSON body
    status,            \* per request: HTTP status, 0 while none was sent
    llmOut,            \* per request: what llm.invoke did in this request
    trIn,              \* per request: the text handed to translate
    trOut,             \* per request: what translate did in this request
    trace,             \* per request: cache accesses and provider calls, in order
    lastWriter         \* per cache key: the request that stored it last

vars == <<response_cache, pc, form, user_query, language, response_content,
          response, status, llmOut, trIn, trOut, trace, lastWriter>>

cache_key(r) == CacheKey(user_query[r][1], language[r])

InFlight == {r \in Requests : pc[r] \notin {"new", "done", "error"}}

Init ==
    /\ response_cache = <<>>
    /\ pc = [r \in Requests |-> "new"]
    /\ form = [r \in Requests |-> [user_query |-> <<>>, language |-> <<>>]]
    /\ user_query = [r \in Requests |-> <<>>]
    /\ language = [r \in Requests |-> DefaultLanguage]
    /\ response_content = [r \in Requests |-> Unset]
    /\ response = [r \in Requests |-> Unset]
    /\ status = [r \in Requests |-> 0]
    /\ llmOut = [r \in Requests |-> NoOutcome]
    /\ trIn = [r \in Requests |-> Unset]
    /\ trOut = [r \in Requests |-> NoOutcome]
    /\ trace = [r \in Requests |-> <<>>]
    /\ lastWriter = <<>>

(***************************************************************************)
(* chat(): a request arrives with one of `forms`.  `limit` is the number   *)
(* of requests the server runs at once.  The handler reads the two form    *)
(* fields and answers a missing or empty query at once; otherwise it       *)
(* enters the pipeline.                                                    *)
(***************************************************************************)
chat(r, limit, forms) ==
    /\ pc[r] = "new"
    /\ IF r = 1 THEN TRUE ELSE pc[r - 1] # "new"
    /\ Cardinality(InFlight) < limit
    /\ \E f \in forms :
        LET q == FormGet(f, "user_query")
            l == FormGetDefault(f, "language", DefaultLanguage)
        IN  /\ form' = [form EXCEPT ![r] = f]
            /\ user_query' = [user_query EXCEPT ![r] = q]
            /\ language' = [language EXCEPT ![r] = l]
            /\ IF Falsy(q)
               THEN /\ response' = [response EXCEPT ![r] = PromptMessage]
                    /\ status' = [status EXCEPT ![r] = 200]
                    /\ pc' = [pc EXCEPT ![r] = "done"]
               ELSE /\ pc' = [pc EXCEPT ![r] = "lookup"]
                    /\ UNCHANGED <<response, status>>
    /\ UNCHANGED <<response_cache, response_content, llmOut, trIn, trOut,
                   trace, lastWriter>>

(***************************************************************************)
(* generate_response_with_gemini, lines 34-36: the cache lookup.           *)
(***************************************************************************)
Lookup(r) ==
    /\ pc[r] = "lookup"
    /\ trace' = [trace EXCEPT ![r] = Append(@, "get")]
    /\ IF CacheHit(cache_key(r), response_cache)
       THEN /\ response' = [response EXCEPT ![r] = response_cache[cache_key(r)]]
            /\ status' = [status EXCEPT ![r] = 200]
            /\ pc' = [pc EXCEPT ![r] = "done"]
       ELSE /\ pc' = [pc EXCEPT ![r] = "llm"]
            /\ UNCHANGED <<response, status>>
    /\ UNCHANGED <<response_cache, form, user_query, language,
                   response_content, llmOut, trIn, trOut, lastWriter>>

(***************************************************************************)
(* lines 51-55: the LLM call inside its try/except.                        *)
(***************************************************************************)
InvokeLlm(r) ==
    /\ pc[r] = "llm"
    /\ \E out \in LlmOutcomes :
        /\ llmOut' = [llmOut EXCEPT ![r] = out]
        /\ trace' = [trace EXCEPT ![r] = Append(@, "llm")]
        /\ IF out.ok \/ ExceptCatches(out.exc)
           THEN /\ response_content' =
                       [response_content EXCEPT ![r] = LlmContent(out)]
                /\ pc' = [pc EXCEPT ![r] = AfterLlm(out, language[r])]
                /\ UNCHANGED status
           ELSE /\ status' = [status EXCEPT ![r] = 500]
                /\ pc' = [pc EXCEPT ![r] = "error"]
                /\ UNCHANGED response_content
    /\ UNCHANGED <<response_cache, form, user_query, language, response,
                   trIn, trOut, lastWriter>>

(***************************************************************************)
(* lines 59-67: the translation call inside its try/except.                *)
(***************************************************************************)
Translate(r) ==
    /\ pc[r] = "translate"
    /\ \E out \in TranslateOutcomes :
        /\ trIn' = [trIn EXCEPT ![r] = response_content[r]]
        /\ trOut' = [trOut EXCEPT ![r] = out]
        /\ trace' = [trace EXCEPT ![r] = Append(@, "translate")]
        /\ IF out.ok \/ ExceptCatches(out.exc)
           THEN /\ response_content' =
                       [response_content EXCEPT
                            ![r] = TranslatedContent(response_content[r], out)]
                /\ pc' = [pc EXCEPT ![r] = AfterTranslate(out)]
                /\ UNCHANGED status
           ELSE /\ status' = [status EXCEPT ![r] = 500]
                /\ pc' = [pc EXCEPT ![r] = "error"]
                /\ UNCHANGED response_content
    /\ UNCHANGED <<response_cache, form, user_query, language, response,
                   llmOut, lastWriter>>

(***************************************************************************)
(* lines 70-71 and 93: store the final text, return it, send the body.     *)
(***************************************************************************)
Store(r) ==
    /\ pc[r] = "store"
    /\ response_cache' =
           CachePut(response_cache, cache_key(r), response_content[r])
    /\ lastWriter' = [k \in DOMAIN lastWriter \cup {cache_key(r)} |->
                          IF k = cache_key(r) THEN r ELSE lastWriter[k]]
    /\ trace' = [trace EXCEPT ![r] = Append(@, "put")]
    /\ response' = [response EXCEPT ![r] = response_content[r]]
    /\ status' = [status EXCEPT ![r] = 200]
    /\ pc' = [pc EXCEPT ![r] = "done"]
    /\ UNCHANGED <<form, user_query, language, response_content, llmOut,
                   trIn, trOut>>

\* one step of the pipeline of request r
generate_response_with_gemini(r) ==
    \/ Lookup(r)
    \/ InvokeLlm(r)
    \/ Translate(r)
    \/ Store(r)

\* requests are served one at a time
Next ==
    \E r \in Requests :
        \/ chat(r, 1, Forms)
        \/ generate_response_with_gemini(r)

Spec == Init /\ [][Next]_vars

\* requests are served by up to MaxInFlight threads
NextConc ==
    \E r \in Requests :
        \/ chat(r, MaxInFlight, ConcForms)
        \/ generate_response_with_gemini(r)

SpecConc == Init /\ [][NextConc]_vars


(* Vocabulary of the properties.                                           *)
(***************************************************************************)
Done(r) == pc[r] = "done"
Started(r) == pc[r] # "new"
\* the request carried a non-empty query, so chat called the pipeline
Answered(r) == Done(r) /\ ~(user_query[r] = <<>> \/ user_query[r] = <<"">>)
\* the pipeline ran to its store
Missed(r) == Done(r) /\ Len(trace[r]) > 1 /\ trace[r][Len(trace[r])] = "put"
\* the pipeline returned the cached value
Hit(r) == Done(r) /\ trace[r] = <<"get">>
ProviderCalls(r) == SelectSeq(trace[r], LAMBDA e : e \in {"llm", "translate"})
IsPrefix(s, t) == Len(s) <= Len(t) /\ s = SubSeq(t, 1, Len(s))
\* the key as the source spells it, written out so that it does not follow CacheKey
KeyText(r) == user_query[r][1] \o "_" \o language[r]
SamePair(r1, r2) == user_query[r1] = user_query[r2] /\ language[r1] = language[r2]

(***************************************************************************)
(* C1.  Sequential runs: a second request with the same non-empty query    *)
(* and the same language invokes no provider and returns exactly the text  *)
(* the first one returned, whatever the first outcome was.                 *)
(***************************************************************************)
C1_RepeatIsCached ==
    \A r1, r2 \in Requests :
        (r1 < r2 /\ Answered(r1) /\ Started(r2) /\ SamePair(r1, r2)) =>
            /\ trace[r2] \in {<<>>, <<"get">>}
            /\ Done(r2) => (response[r2] = response[r1] /\ trace[r2] = <<"get">>)

\* a repeat of a request whose LLM call failed and whose translation succeeded
C1_Witness ==
    \E r1, r2 \in Requests :
        /\ r1 < r2 /\ Missed(r1) /\ Answered(r2) /\ SamePair(r1, r2)
        /\ ~llmOut[r1].ok /\ trOut[r1].ok
        /\ response[r2] = "T1"

(***************************************************************************)
(* C2.  A request whose query is empty or absent is answered with the      *)
(* fixed prompt message, its pipeline trace is empty (no cache read, no    *)
(* cache write, no provider call), and the step that answers it leaves the *)
(* cache as it was.                                                        *)
(***************************************************************************)
C2_EmptyQueryRejected ==
    /\ [](\A r \in Requests :
            (Started(r) /\ (user_query[r] = <<>> \/ user_query[r] = <<"">>)) =>
                /\ Done(r)
                /\ response[r] = PromptMessage
                /\ status[r] = 200
                /\ trace[r] = <<>>
                /\ llmOut[r] = NoOutcome /\ trOut[r] = NoOutcome)
    /\ [](\A k \in DOMAIN response_cache : response_cache[k] # PromptMessage)
    /\ [][\A r \in Requests :
            (pc[r] = "new" /\ pc'[r] # "new"
                /\ (user_query'[r] = <<>> \/ user_query'[r] = <<"">>)) =>
                response_cache' = response_cache]_vars

\* an empty and an absent query, each answered while the cache holds entries
C2_Witness ==
    \E r1, r2 \in Requests :
        /\ Done(r1) /\ form[r1].user_query = <<"">> /\ language[r1] # "en"
        /\ Done(r2) /\ form[r2].user_query = <<>>
        /\ response_cache # <<>>

(***************************************************************************)
(* C3 as stated: after an LLM failure on an uncached key the request       *)
(* returns the fixed fallback text and the fallback text is what the cache *)
(* holds, for every language.                                              *)
(***************************************************************************)
C3_Original ==
    \A r \in Requests :
        (Missed(r) /\ ~llmOut[r].ok) =>
            /\ response[r] = Fallback
            /\ response_cache[KeyText(r)] = Fallback

(***************************************************************************)
(* C3 amended.  After an LLM failure on an uncached key: when the language *)
(* is "en" or the translation call fails, the request returns the fixed    *)
(* fallback text; when the language is not "en" and the translation call   *)
(* succeeds, the translator was handed the fallback text and the request   *)
(* returns the translator's output.  In both cases the cache holds the     *)
(* returned text under the key.                                            *)
(***************************************************************************)
C3_FallbackThenTranslated ==
    \A r \in Requests :
        (Missed(r) /\ ~llmOut[r].ok) =>
            /\ (language[r] = "en" \/ ~trOut[r].ok) => response[r] = Fallback
            /\ (language[r] # "en" /\ trOut[r].ok) =>
                   (trIn[r] = Fallback /\ response[r] = trOut[r].text)
            /\ language[r] # "en" => trIn[r] = Fallback
            /\ response_cache[KeyText(r)] = response[r]

\* the LLM failed, the language is not "en" and the translation succeeded
C3_Witness ==
    \E r \in Requests :
        /\ Missed(r) /\ ~llmOut[r].ok
        /\ language[r] # "en" /\ trOut[r].ok
        /\ response[r] # Fallback

(***************************************************************************)
(* C4.  A request whose language is "en", given in the form or defaulted,  *)
(* never invokes the translation provider, whether the LLM call succeeded  *)
(* or failed.                                                              *)
(***************************************************************************)
C4_EnglishNeverTranslated ==
    \A r \in Requests :
        language[r] = "en" =>
            /\ \A i \in 1..Len(trace[r]) : trace[r][i] # "translate"
            /\ trOut[r] = NoOutcome
            /\ trIn[r] = Unset

\* a defaulted "en" whose LLM call failed, and an explicit "en" whose call succeeded
C4_Witness ==
    \E r1, r2 \in Requests :
        /\ Missed(r1) /\ form[r1].language = <<>> /\ ~llmOut[r1].ok
        /\ Missed(r2) /\ form[r2].language = <<"en">> /\ llmOut[r2].ok

(***************************************************************************)
(* C5.  Sequential runs, uncached key, language other than "en": when the  *)
(* translation call succeeds the returned and cached text is the           *)
(* translator's output for the text the pipeline held before the call;     *)
(* when it fails the returned and cached text is that earlier text,        *)
(* unchanged.                                                              *)
(***************************************************************************)
C5_TranslationOutcome ==
    \A r \in Requests :
        (Missed(r) /\ language[r] # "en") =>
            /\ trIn[r] = (IF llmOut[r].ok THEN llmOut[r].text ELSE Fallback)
            /\ trOut[r].ok => response[r] = trOut[r].text
            /\ ~trOut[r].ok => response[r] = trIn[r]
            /\ response_cache[KeyText(r)] = response[r]

\* one request whose translation succeeded and one whose translation failed
C5_Witness ==
    \E r1, r2 \in Requests :
        /\ Missed(r1) /\ language[r1] # "en" /\ trOut[r1].ok
        /\ Missed(r2) /\ language[r2] # "en" /\ ~trOut[r2].ok
        /\ llmOut[r2].ok /\ response[r2] = llmOut[r2].text

(***************************************************************************)
(* C6.  No request ends in an error: a request never leaves the normal     *)
(* path, a finished request has status 200 and carries a text, and a       *)
(* request inside the pipeline can always take its next step.              *)
(***************************************************************************)
C6_AlwaysNormalResponse ==
    \A r \in Requests :
        /\ pc[r] # "error"
        /\ status[r] \in {0, 200}
        /\ Done(r) => (status[r] = 200 /\ response[r] # Unset)
        /\ (Started(r) /\ ~Done(r)) => ENABLED generate_response_with_gemini(r)

\* a request answered although both provider calls failed
C6_Witness ==
    \E r \in Requests :
        /\ Missed(r) /\ "translate" \in {trace[r][i] : i \in 1..Len(trace[r])}
        /\ ~llmOut[r].ok /\ ~trOut[r].ok
        /\ status[r] = 200

(***************************************************************************)
(* C7 as stated: when two requests for the same uncached key both missed   *)
(* and both stored, the cache holds the key, its value equals the text     *)
(* returned to each of the two, and every later hit returned that text.    *)
(***************************************************************************)
C7_Original ==
    \A r1, r2 \in Requests :
        (r1 # r2 /\ Missed(r1) /\ Missed(r2) /\ KeyText(r1) = KeyText(r2)) =>
            /\ KeyText(r1) \in DOMAIN response_cache
            /\ response_cache[KeyText(r1)] = response[r1]
            /\ response_cache[KeyText(r1)] = response[r2]
            /\ \A r3 \in Requests :
                   (Hit(r3) /\ KeyText(r3) = KeyText(r1)) =>
                       response[r3] = response_cache[KeyText(r1)]

(***************************************************************************)
(* C7 amended.  Overlapping requests for the same uncached key may both    *)
(* miss and both store; the later store replaces the earlier one.  At all  *)
(* times the cache holds one entry per stored key, whose value is the text *)
(* returned to the request that stored it last, and a request that finds   *)
(* the key returns the value the cache holds at that moment.               *)
(***************************************************************************)
C7_LastWriterWins ==
    /\ [](\A r \in Requests : Missed(r) => KeyText(r) \in DOMAIN response_cache)
    /\ [](\A k \in DOMAIN response_cache :
            /\ k \in DOMAIN lastWriter
            /\ Missed(lastWriter[k])
            /\ KeyText(lastWriter[k]) = k
            /\ response_cache[k] = response[lastWriter[k]])
    /\ [][\A r \in Requests :
            (pc[r] = "lookup" /\ pc'[r] = "done") =>
                /\ KeyText(r) \in DOMAIN response_cache
                /\ response'[r] = response_cache[KeyText(r)]
                /\ response_cache' = response_cache]_vars

\* two overlapping misses that were given different texts, then a hit
C7_Witness ==
    \E r1, r2, r3 \in Requests :
        /\ Missed(r1) /\ Missed(r2) /\ Hit(r3)
        /\ KeyText(r1) = KeyText(r2) /\ KeyText(r3) = KeyText(r1)
        /\ lastWriter[KeyText(r1)] = r2
        /\ response[r1] # response[r2]
        /\ response[r3] = response[r2]

(***************************************************************************)
(* C8.  Sequential runs: two different (query, language) pairs whose       *)
(* texts joined by "_" are equal share one cache entry: after the first    *)
(* pair was answered, a request for the second pair invokes no provider    *)
(* and returns the text cached for the first.                              *)
(***************************************************************************)
C8_KeyCollision ==
    \A r1, r2 \in Requests :
        (/\ r1 < r2 /\ Answered(r1) /\ Started(r2)
         /\ ~(user_query[r2] = <<>> \/ user_query[r2] = <<"">>)
         /\ ~SamePair(r1, r2)
         /\ KeyText(r1) = KeyText(r2)) =>
            /\ cache_key(r1) = cache_key(r2)
            /\ trace[r2] \in {<<>>, <<"get">>}
            /\ Done(r2) => (response[r2] = response[r1] /\ trace[r2] = <<"get">>)

\* ("a_b", "en") answered first, then ("a", "b_en") served from its entry
C8_Witness ==
    \E r1, r2 \in Requests :
        /\ r1 < r2 /\ Missed(r1) /\ Hit(r2)
        /\ user_query[r1] = <<"a_b">> /\ language[r1] = "en"
        /\ user_query[r2] = <<"a">> /\ language[r2] = "b_en"
        /\ response[r2] = response[r1]

(***************************************************************************)
(* C9.  Sequential runs: no step removes a cache entry or changes the      *)
(* value of an existing one; the cache changes only in the store that ends *)
(* a pipeline run that missed, which adds one new key; a hit writes        *)
(* nothing.                                                                *)
(***************************************************************************)
C9_EntriesPersist ==
    /\ [][\A k \in DOMAIN response_cache :
            k \in DOMAIN response_cache' /\ response_cache'[k] = response_cache[k]]_vars
    /\ [][response_cache' # response_cache =>
            \E r \in Requests :
                /\ pc[r] = "store" /\ pc'[r] = "done"
                /\ KeyText(r) \notin DOMAIN response_cache
                /\ DOMAIN response_cache' = DOMAIN response_cache \cup {KeyText(r)}]_vars
    /\ [](\A r \in Requests :
            \A i \in 1..Len(trace[r]) :
                trace[r][i] = "put" => (i = Len(trace[r]) /\ Done(r) /\ i > 1))

\* two entries exist and a later request was served from one of them
C9_Witness ==
    /\ Cardinality(DOMAIN response_cache) >= 2
    /\ \E r1, r2 \in Requests :
        /\ r1 < r2 /\ Missed(r1) /\ Hit(r2)
        /\ response_cache[KeyText(r1)] = response[r1]

(***************************************************************************)
(* C10.  Provider calls are single-shot: the trace of a request is always  *)
(* a prefix of  get, llm, put  when the language is "en" and of            *)
(* get, llm, translate, put  otherwise, and a run that missed has the      *)
(* whole of it: one LLM call, one translation call exactly when the        *)
(* language is not "en" (also after an LLM failure), the LLM call first,   *)
(* and no second call after a failure.                                     *)
(***************************************************************************)
C10_SingleShot ==
    \A r \in Requests :
        LET full == IF language[r] = "en"
                    THEN <<"get", "llm", "put">>
                    ELSE <<"get", "llm", "translate", "put">>
        IN  /\ IsPrefix(trace[r], full)
            /\ Missed(r) => trace[r] = full
            /\ (Done(r) /\ trace[r] # <<>> /\ ~Hit(r)) => Missed(r)

\* a run in which both provider calls failed
C10_Witness ==
    \E r \in Requests :
        /\ Missed(r) /\ language[r] # "en"
        /\ ~llmOut[r].ok /\ ~trOut[r].ok
        /\ ProviderCalls(r) = <<"llm", "translate">>


=============================================================================
